---- MODULE Spec2Model ----
(***************************************************************************)
(* The HTTP facade of app/api/routes.py: the batch handler chat, the       *)
(* streaming handler chat_stream with its generator event_generator, the   *)
(* lazily filled module global _checkpointer behind get_agent_graph, the   *)
(* checkpointer stub of app/agent/checkpointer.py and the lifespan of      *)
(* app/main.py.  The agent graph (ainvoke, the event stream) is the        *)
(* environment: what it returns, yields or raises is chosen freely from    *)
(* small sets.                                                             *)
(*                                                                         *)
(* asyncio runs a coroutine without interruption between two suspension    *)
(* points.  `await get_checkpointer()` never suspends (the coroutine holds *)
(* no await), so a handler runs atomically from its entry to the first     *)
(* call into the graph; the actions are cut at these suspension points.    *)
(***************************************************************************)
EXTENDS Integers, Sequences, FiniteSets, TLC

\* ------------------------------------------------------------------ bounds
MaxReqs == 2        \* requests the process serves (slots, each used once)
MaxEvents == 2      \* events one streaming execution of the graph yields
MaxMsgs == 2        \* messages in one result of ainvoke
MaxToolCalls == 2   \* tool-call records on one message

Reqs == 1..MaxReqs

\* ------------------------------------------------------------- Python data
None == "None"

\* Python truthiness of an Optional[str]: None and "" are falsy.
Truthy(s) == s /= None /\ s /= ""

\* d.get(k, default) on a dict modelled as a record.
dict_get(d, k, default) == IF k \in DOMAIN d THEN d[k] ELSE default

\* An Optional[list]: None is kept apart from the empty list.
NoList == [some |-> FALSE, value |-> <<>>]
SomeList(l) == [some |-> TRUE, value |-> l]

\* Session ids a client may send: none, the empty string, or an id.
SuppliedIds == {None, "", "s1"}

\* str(uuid.uuid4()): a fresh identifier for every call; a request makes at
\* most one call, so the call made by request r yields UUIDs[r].
UUIDs == <<"uuid-1", "uuid-2", "uuid-3", "uuid-4", "uuid-5">>
uuid4(r) == UUIDs[r]

Message == "hello"
HumanMessage(content) == [type |-> "human", content |-> content]

\* Exceptions the graph (its construction, ainvoke, its event stream) may
\* raise; str(e) is the message, not the exception.
Errors == { [type |-> "TimeoutError", msg |-> "graph timed out"],
            [type |-> "RuntimeError", msg |-> "graph failed"] }
NoError == [type |-> "", msg |-> ""]
HTTPException(status_code, detail) ==
    [type |-> "HTTPException", msg |-> detail, status_code |-> status_code]
\* str() of an exception; for starlette's HTTPException only the detail is
\* kept here (the status prefix of its text is not modelled).
str(e) == e.msg

\* -------------------------------------------------------- tool-call records
\* tool_call dicts as the graph's messages carry them: an id beside name and
\* args, and possibly no "args" key.
ToolCalls == { [name |-> "A", args |-> "a", id |-> "1"],
               [name |-> "B", args |-> "b", id |-> "2"],
               [name |-> "C", id |-> "3"] }

RECURSIVE SeqsUpTo(_, _)
SeqsUpTo(S, n) ==
    IF n = 0 THEN {<<>>}
    ELSE LET shorter == SeqsUpTo(S, n - 1)
         IN  shorter \cup { Append(s, x) : s \in shorter, x \in S }

\* A returned message: its content, and a tool_calls attribute that only
\* some message types have.
Messages == [ content : {"answer"},
              has_tool_calls : {TRUE},
              tool_calls : SeqsUpTo(ToolCalls, MaxToolCalls) ]
            \cup { [content |-> "answer", has_tool_calls |-> FALSE, tool_calls |-> <<>>] }

\* Results of ainvoke: a dict with a "messages" list, or without the key.
BoundedResults ==
    { [messages |-> ms] : ms \in SeqsUpTo(Messages, MaxMsgs) }
    \cup { [session_id |-> "s1"] }

PlainMessage == [content |-> "answer", has_tool_calls |-> FALSE, tool_calls |-> <<>>]
ToolMessage(tcs) == [content |-> "answer", has_tool_calls |-> TRUE, tool_calls |-> tcs]
SampleResults ==
    { [session_id |-> "s1"],
      [messages |-> <<>>],
      [messages |-> <<PlainMessage>>],
      [messages |-> <<ToolMessage(<<[name |-> "A", args |-> "a", id |-> "1"]>>)>>] }

\* ------------------------------------------------- app/agent/checkpointer.py
\* Variant: the stub replaced by a working saver.
get_checkpointer_postgres == "AsyncPostgresSaver"

\* get_checkpointer(): the stub; checkpointing is disabled.
get_checkpointer == None

\* ------------------------------------------------------- app/api/routes.py
\* create_agent_graph(checkpointer=...): the graph object keeps the
\* checkpointer it was built with.
create_agent_graph(checkpointer) == [checkpointer |-> checkpointer]

\* get_agent_graph(), given the module global _checkpointer: the global's new
\* value, whether get_checkpointer was awaited, and the argument handed to
\* create_agent_graph (which is called on every call).
get_agent_graph(cp) ==
    LET filled == IF cp = None THEN get_checkpointer ELSE cp
    IN  [ checkpointer |-> filled,
          awaited |-> (cp = None),
          create_arg |-> filled ]

\* Variant: the supplied id is ignored.
resolve_session_id_fresh(supplied, fresh) == fresh

\* session_id = chat_request.session_id or str(uuid.uuid4())
resolve_session_id(supplied, fresh) == IF Truthy(supplied) THEN supplied ELSE fresh

\* initial_state = {"messages": [HumanMessage(content=message)], "session_id": sid}
initial_state(message, session_id) ==
    [messages |-> <<HumanMessage(message)>>, session_id |-> session_id]

\* Variant: a fixed thread id instead of the session's.
thread_config_default(session_id) == [configurable |-> [thread_id |-> "default"]]

\* config = {"configurable": {"thread_id": sid}}
thread_config(session_id) == [configurable |-> [thread_id |-> session_id]]

\* {"name": tool_call.get("name"), "args": tool_call.get("args")}
tool_call_record(tool_call) ==
    [name |-> dict_get(tool_call, "name", None), args |-> dict_get(tool_call, "args", None)]

\* The inner loop of the extraction, for one message:
\* if hasattr(msg, "tool_calls") and msg.tool_calls: for tool_call in ...
message_tool_calls(msg) ==
    IF msg.has_tool_calls /\ msg.tool_calls /= <<>>
    THEN [i \in 1..Len(msg.tool_calls) |-> tool_call_record(msg.tool_calls[i])]
    ELSE <<>>

\* Variant: only the last message is scanned.
extract_tool_calls_last(messages) ==
    IF messages = <<>> THEN <<>> ELSE message_tool_calls(messages[Len(messages)])

\* tool_calls = []; for msg in messages: ... tool_calls.append(...)
RECURSIVE extract_tool_calls(_)
extract_tool_calls(messages) ==
    IF messages = <<>> THEN <<>>
    ELSE message_tool_calls(Head(messages)) \o extract_tool_calls(Tail(messages))

\* tool_calls=tool_calls if tool_calls else None
tool_calls_field(tool_calls) ==
    IF tool_calls /= <<>> THEN SomeList(tool_calls) ELSE NoList

ChatResponse(response, session_id, tool_calls) ==
    [response |-> response, session_id |-> session_id, tool_calls |-> tool_calls]
NoBody == ChatResponse("", None, NoList)

\* What the client of the batch handler gets: a ChatResponse (HTTP 200) ...
chat_return(body) ==
    [status |-> 200, has_body |-> TRUE, body |-> body, detail |-> None]

\* ... or, from `except Exception as e`, HTTPException(500, detail=str(e)).
chat_except(e) ==
    [status |-> 500, has_body |-> FALSE, body |-> NoBody, detail |-> str(e)]
NoHttp == [status |-> 0, has_body |-> FALSE, body |-> NoBody, detail |-> None]

\* `if not messages`
no_messages(messages) == messages = <<>>

\* Variant: an empty result answered with an empty reply.
chat_after_ainvoke_lenient(result, session_id) ==
    LET messages == dict_get(result, "messages", <<>>)
    IN  IF messages = <<>>
        THEN chat_return(ChatResponse("", session_id, NoList))
        ELSE chat_return(ChatResponse(messages[Len(messages)].content,
                                      session_id,
                                      tool_calls_field(extract_tool_calls(messages))))

\* The batch handler after ainvoke returned `result`: the try block's
\* remainder, every exception of it landing in the except clause.
chat_after_ainvoke(result, session_id) ==
    LET messages == dict_get(result, "messages", <<>>)
    IN  IF no_messages(messages)
        THEN chat_except(HTTPException(500, "No response from agent"))
        ELSE IF Len(messages) = 0
        THEN \* messages[-1] on an empty list
             chat_except([type |-> "IndexError", msg |-> "list index out of range"])
        ELSE chat_return(ChatResponse(messages[Len(messages)].content,
                                      session_id,
                                      tool_calls_field(extract_tool_calls(messages))))

\* The k-th event the streaming execution of request r's graph call yields,
\* already formatted as an SSE frame (event name and data); src and seq tell
\* the events of all executions apart.
stream_event(r, k) == [event |-> "message", data |-> "chunk", src |-> r, seq |-> k]

\* Variant: the exception's type name instead of its text.
error_frame_repr(e) == [event |-> "error", data |-> e.type, src |-> 0, seq |-> 0]

\* f"event: error\ndata: {str(e)}\n\n"
error_frame(e) == [event |-> "error", data |-> str(e), src |-> 0, seq |-> 0]

\* Variant: the newest frame overtakes the frames before it.
deliver_newest_first(conn, r, frame) == [conn EXCEPT ![r] = <<frame>> \o @]

\* Variant: one output shared by all requests.
deliver_broadcast(conn, r, frame) == [q \in DOMAIN conn |-> Append(conn[q], frame)]

\* `yield event` inside the generator of request r: the frame goes out on
\* r's own connection, after the frames already sent.
deliver(conn, r, frame) == [conn EXCEPT ![r] = Append(@, frame)]

\* ------------------------------------------------------------------- state
VARIABLES
    phase,                  \* lifespan: "init", then "serving"
    app_state_checkpointer, \* app.state.checkpointer (main.py)
    _checkpointer,          \* the module global of routes.py
    get_checkpointer_calls, \* calls of get_checkpointer so far
    create_agent_graph_args,\* the checkpointer of every create_agent_graph call
    req,                    \* per request: the handler's locals and position
    connection              \* per request: the frames sent to the client

vars == <<phase, app_state_checkpointer, _checkpointer, get_checkpointer_calls,
          create_agent_graph_args, req, connection>>

NoResult == [some |-> FALSE, value |-> [messages |-> <<>>]]
IdleReq ==
    [ kind |-> "none", pc |-> "idle", supplied |-> None, session_id |-> None,
      initial_state |-> initial_state(Message, None),
      config |-> thread_config(None),
      agent_graph |-> create_agent_graph("unset"),
      ainvoke_calls |-> 0, result |-> NoResult, raised |-> NoError,
      http |-> NoHttp, events |-> <<>> ]

Init ==
    /\ phase = "init"
    /\ app_state_checkpointer = None
    /\ _checkpointer = None
    /\ get_checkpointer_calls = 0
    /\ create_agent_graph_args = <<>>
    /\ req = [r \in Reqs |-> IdleReq]
    /\ connection = [r \in Reqs |-> <<>>]

\* ------------------------------------------------------------- app/main.py
\* lifespan up to its yield: the PostgreSQL saver is set up and stored in
\* app.state; the module global of routes.py is not touched.
lifespan_startup ==
    /\ phase = "init"
    /\ phase' = "serving"
    /\ app_state_checkpointer' = "AsyncPostgresSaver"
    /\ UNCHANGED <<_checkpointer, get_checkpointer_calls, create_agent_graph_args,
                   req, connection>>

\* The part of get_agent_graph that writes shared state.
GetAgentGraphEffects ==
    LET g == get_agent_graph(_checkpointer)
    IN  /\ _checkpointer' = g.checkpointer
        /\ get_checkpointer_calls' = get_checkpointer_calls + (IF g.awaited THEN 1 ELSE 0)
        /\ create_agent_graph_args' = Append(create_agent_graph_args, g.create_arg)

\* ------------------------------------------------ POST /chat (routes.py)
\* chat from its entry to the suspension in `await agent_graph.ainvoke(...)`:
\* the graph is obtained, the session id resolved, state and config built
\* and ainvoke called.  create_agent_graph may raise; the except clause then
\* ends the request.
chat_call(r) ==
    /\ phase = "serving"
    /\ req[r].pc = "idle"
    /\ GetAgentGraphEffects
    /\ \E supplied \in SuppliedIds :
        LET g == get_agent_graph(_checkpointer)
            sid == resolve_session_id(supplied, uuid4(r))
            entered == [req[r] EXCEPT !.kind = "chat", !.supplied = supplied]
        IN  \/ req' = [req EXCEPT ![r] =
                        [entered EXCEPT !.pc = "ainvoke",
                                        !.agent_graph = create_agent_graph(g.create_arg),
                                        !.session_id = sid,
                                        !.initial_state = initial_state(Message, sid),
                                        !.config = thread_config(sid),
                                        !.ainvoke_calls = @ + 1]]
            \/ \E e \in Errors :
                 req' = [req EXCEPT ![r] =
                          [entered EXCEPT !.pc = "responded",
                                          !.raised = e,
                                          !.http = chat_except(e)]]
    /\ UNCHANGED <<phase, app_state_checkpointer, connection>>

\* ainvoke returns `result`; the rest of the try block runs to the response.
chat_ainvoke_return(r, results) ==
    /\ req[r].pc = "ainvoke"
    /\ \E result \in results :
         req' = [req EXCEPT ![r].pc = "responded",
                            ![r].result = [some |-> TRUE, value |-> result],
                            ![r].http = chat_after_ainvoke(result, req[r].session_id)]
    /\ UNCHANGED <<phase, app_state_checkpointer, _checkpointer,
                   get_checkpointer_calls, create_agent_graph_args, connection>>

\* Variant: a failed ainvoke is called again.
chat_ainvoke_raise_retry(r) ==
    /\ req[r].pc = "ainvoke"
    /\ req' = [req EXCEPT ![r].ainvoke_calls = @ + 1]
    /\ UNCHANGED <<phase, app_state_checkpointer, _checkpointer,
                   get_checkpointer_calls, create_agent_graph_args, connection>>

\* ainvoke raises e: the except clause turns it into the HTTP error.
chat_ainvoke_raise(r) ==
    /\ req[r].pc = "ainvoke"
    /\ \E e \in Errors :
         req' = [req EXCEPT ![r].pc = "responded",
                            ![r].raised = e,
                            ![r].http = chat_except(e)]
    /\ UNCHANGED <<phase, app_state_checkpointer, _checkpointer,
                   get_checkpointer_calls, create_agent_graph_args, connection>>

\* -------------------------------------------- GET /chat/stream (routes.py)
\* chat_stream itself: the generator is created, not yet run, and handed to
\* EventSourceResponse.
chat_stream(r) ==
    /\ phase = "serving"
    /\ req[r].pc = "idle"
    /\ \E supplied \in SuppliedIds :
         req' = [req EXCEPT ![r].kind = "stream",
                            ![r].pc = "created",
                            ![r].supplied = supplied]
    /\ UNCHANGED <<phase, app_state_checkpointer, _checkpointer,
                   get_checkpointer_calls, create_agent_graph_args, connection>>

\* event_generator from its start to the first suspension inside
\* `async for event in stream_agent_response(...)`; a failure before that
\* yields the error frame and ends the generator.
event_generator_start(r) ==
    /\ req[r].pc = "created"
    /\ GetAgentGraphEffects
    /\ LET g == get_agent_graph(_checkpointer)
           sid == resolve_session_id(req[r].supplied, uuid4(r))
       IN  \/ /\ req' = [req EXCEPT ![r].pc = "streaming",
                                    ![r].agent_graph = create_agent_graph(g.create_arg),
                                    ![r].session_id = sid,
                                    ![r].initial_state = initial_state(Message, sid),
                                    ![r].config = thread_config(sid)]
              /\ UNCHANGED connection
           \/ \E e \in Errors :
                /\ req' = [req EXCEPT ![r].pc = "closed", ![r].raised = e]
                /\ connection' = deliver(connection, r, error_frame(e))
    /\ UNCHANGED <<phase, app_state_checkpointer>>

\* The graph yields its next event, which the generator yields in turn.
event_generator_yield(r) ==
    /\ req[r].pc = "streaming"
    /\ Len(req[r].events) < MaxEvents
    /\ LET event == stream_event(r, Len(req[r].events) + 1)
       IN  /\ req' = [req EXCEPT ![r].events = Append(@, event)]
           /\ connection' = deliver(connection, r, event)
    /\ UNCHANGED <<phase, app_state_checkpointer, _checkpointer,
                   get_checkpointer_calls, create_agent_graph_args>>

\* The graph's stream is exhausted: the loop and the generator end.
event_generator_stop(r) ==
    /\ req[r].pc = "streaming"
    /\ req' = [req EXCEPT ![r].pc = "closed"]
    /\ UNCHANGED <<phase, app_state_checkpointer, _checkpointer,
                   get_checkpointer_calls, create_agent_graph_args, connection>>

\* Producing the next event raises e: the except clause yields the error
\* frame and the generator ends.
event_generator_raise(r) ==
    /\ req[r].pc = "streaming"
    /\ \E e \in Errors :
        /\ req' = [req EXCEPT ![r].pc = "closed", ![r].raised = e]
        /\ connection' = deliver(connection, r, error_frame(e))
    /\ UNCHANGED <<phase, app_state_checkpointer, _checkpointer,
                   get_checkpointer_calls, create_agent_graph_args>>

\* ---------------------------------------------------------- specifications
Next ==
    \/ lifespan_startup
    \/ \E r \in Reqs : chat_call(r)
    \/ \E r \in Reqs : chat_ainvoke_return(r, SampleResults)
    \/ \E r \in Reqs : chat_ainvoke_raise(r)
    \/ \E r \in Reqs : chat_stream(r)
    \/ \E r \in Reqs : event_generator_start(r)
    \/ \E r \in Reqs : event_generator_yield(r)
    \/ \E r \in Reqs : event_generator_stop(r)
    \/ \E r \in Reqs : event_generator_raise(r)

Spec == Init /\ [][Next]_vars

\* One batch request at a time, its result drawn from all results within the
\* bounds.
NextBatch ==
    \/ lifespan_startup
    \/ chat_call(1)
    \/ chat_ainvoke_return(1, BoundedResults)
    \/ chat_ainvoke_raise(1)

SpecBatch == Init /\ [][NextBatch]_vars

\* ------------------------------------------------------------------ claims
Chats == { r \in Reqs : req[r].kind = "chat" }
Streams == { r \in Reqs : req[r].kind = "stream" }

\* The request has passed the line that resolves its session id.
Resolved(r) == req[r].pc \in {"ainvoke", "streaming"}
               \/ (req[r].pc \in {"responded", "closed"} /\ req[r].session_id /= None)

\* C1: a supplied, non-empty session id is the id the request uses and the id
\* the batch response carries; an id is generated only when none, or the empty
\* one, was supplied.
C1_SessionEcho ==
    \A r \in Reqs :
        Resolved(r) =>
            /\ (req[r].supplied \notin {None, ""} => req[r].session_id = req[r].supplied)
            /\ (req[r].session_id /= req[r].supplied => req[r].supplied \in {None, ""})
            /\ req[r].session_id \notin {None, ""}
            /\ (req[r].http.has_body /\ req[r].supplied \notin {None, ""}
                  => req[r].http.body.session_id = req[r].supplied)

C1_Witness ==
    /\ \E r \in Chats : /\ req[r].supplied = "s1"
                        /\ req[r].http.has_body
                        /\ req[r].http.body.session_id = "s1"
    /\ \E r \in Streams : req[r].supplied = "" /\ req[r].pc = "streaming"

\* C2: a batch request whose graph result holds no messages (the list empty,
\* or the key missing) ends with HTTP 500 and without a ChatResponse.
C2_EmptyResultIs500 ==
    \A r \in Chats :
        ( /\ req[r].result.some
          /\ ( "messages" \notin DOMAIN req[r].result.value
               \/ Len(req[r].result.value.messages) = 0 ) )
        => /\ req[r].pc = "responded"
           /\ req[r].http.status = 500
           /\ ~req[r].http.has_body

C2_Witness ==
    /\ \E r \in Chats : /\ req[r].result.some
                        /\ "messages" \notin DOMAIN req[r].result.value
                        /\ req[r].http.status = 500
    /\ \E r \in Chats : /\ req[r].result.some
                        /\ "messages" \in DOMAIN req[r].result.value
                        /\ req[r].result.value.messages = <<>>
                        /\ req[r].http.status = 500

\* Tool-call records message m contributes, and the number of records the
\* messages before the i-th contribute.
CallCount(m) == IF m.has_tool_calls THEN Len(m.tool_calls) ELSE 0
RECURSIVE CallsBefore(_, _)
CallsBefore(ms, i) ==
    IF i <= 1 THEN 0 ELSE CallsBefore(ms, i - 1) + CallCount(ms[i - 1])

\* C3: the response to a non-empty result lists the (name, args) of every
\* tool call of every returned message, message by message in the order
\* returned and call by call within a message; with no tool call at all the
\* field is None, never an empty list.
C3_ToolCallsFlatInOrder ==
    \A r \in Chats :
        req[r].http.has_body =>
            LET ms == req[r].result.value.messages
                tc == req[r].http.body.tool_calls
                total == CallsBefore(ms, Len(ms) + 1)
            IN  /\ (total = 0 => tc = NoList)
                /\ (total > 0 =>
                      /\ tc.some
                      /\ Len(tc.value) = total
                      /\ \A i \in 1..Len(ms) : \A j \in 1..CallCount(ms[i]) :
                           LET call == ms[i].tool_calls[j]
                               got == tc.value[CallsBefore(ms, i) + j]
                           IN  /\ DOMAIN got = {"name", "args"}
                               /\ got.name = call.name
                               /\ got.args = (IF "args" \in DOMAIN call
                                              THEN call.args ELSE None))

C3_Witness ==
    \E r \in Chats :
        /\ req[r].result.some
        /\ "messages" \in DOMAIN req[r].result.value
        /\ Len(req[r].result.value.messages) = 2
        /\ Len(req[r].result.value.messages[1].tool_calls) = 1
        /\ req[r].result.value.messages[1].tool_calls[1].name = "C"
        /\ Len(req[r].result.value.messages[2].tool_calls) = 2
        /\ req[r].result.value.messages[2].tool_calls[1].name = "A"
        /\ req[r].result.value.messages[2].tool_calls[2].name = "B"
        /\ req[r].http.has_body
        /\ req[r].http.body.tool_calls =
             SomeList(<< [name |-> "C", args |-> None],
                         [name |-> "A", args |-> "a"],
                         [name |-> "B", args |-> "b"] >>)

\* The events request r's graph execution has yielded so far, as the graph
\* formats them.
GraphEvents(r) ==
    [k \in 1..Len(req[r].events) |->
        [event |-> "message", data |-> "chunk", src |-> r, seq |-> k]]

\* C4: a stream on which nothing failed has carried exactly the events its
\* graph execution yielded, each once and in the order yielded, at every
\* moment and when the generator has ended.
C4_StreamForwardsAll ==
    \A r \in Streams :
        req[r].raised = NoError =>
            /\ connection[r] = req[r].events
            /\ req[r].events = GraphEvents(r)

C4_Witness ==
    \E r \in Streams :
        /\ req[r].pc = "closed"
        /\ req[r].raised = NoError
        /\ Len(connection[r]) = 2
        /\ connection[r][1].seq = 1
        /\ connection[r][2].seq = 2

\* C5: a stream on which error e was raised (before the first event or after
\* any number of events) has carried the events yielded before e, in order,
\* then one frame named "error" with str(e) as data, and is closed; no other
\* frame follows.
C5_StreamErrorFrame ==
    \A r \in Streams :
        req[r].raised /= NoError =>
            /\ req[r].pc = "closed"
            /\ connection[r] =
                 GraphEvents(r) \o
                 << [event |-> "error", data |-> req[r].raised.msg, src |-> 0, seq |-> 0] >>

C5_Witness ==
    /\ \E r \in Streams : /\ req[r].raised \in Errors
                          /\ Len(req[r].events) = 1
                          /\ Len(connection[r]) = 2
                          /\ connection[r][2].event = "error"
    /\ \E r \in Streams : /\ req[r].raised \in Errors
                          /\ Len(connection[r]) = 1

\* C6: a batch request on which obtaining or invoking the graph raised e ends
\* with HTTP 500 whose detail is str(e), and no request calls ainvoke more
\* than once.
C6_FailureIs500NoRetry ==
    \A r \in Reqs :
        /\ req[r].ainvoke_calls <= 1
        /\ (r \in Chats /\ req[r].raised /= NoError) =>
              /\ req[r].pc = "responded"
              /\ req[r].http.status = 500
              /\ req[r].http.detail = req[r].raised.msg
              /\ ~req[r].http.has_body

C6_Witness ==
    /\ \E r \in Chats : /\ req[r].raised \in Errors
                        /\ req[r].ainvoke_calls = 1
                        /\ req[r].http.status = 500
    /\ \E r \in Chats : /\ req[r].raised \in Errors
                        /\ req[r].ainvoke_calls = 0
                        /\ req[r].http.status = 500

IsGraphFrame(f) == f.event /= "error"
C8_StreamsIsolated ==
    \A r1 \in Streams : \A r2 \in Streams :
        ( /\ r1 /= r2
          /\ Resolved(r1) /\ Resolved(r2)
          /\ req[r1].session_id /= req[r2].session_id )
        => /\ \A i \in 1..Len(connection[r1]) : connection[r1][i].src /= r2
           /\ SelectSeq(connection[r1], IsGraphFrame) = GraphEvents(r1)

C8_Witness ==
    \E r1 \in Streams : \E r2 \in Streams :
        /\ r1 /= r2
        /\ req[r1].pc = "streaming" /\ req[r2].pc = "streaming"
        /\ req[r1].session_id /= req[r2].session_id
        /\ Len(connection[r1]) = 2
        /\ Len(connection[r2]) = 1

\* C9: the session id in the initial state, the thread_id in the thread
\* configuration and the request's resolved id are one and the same, for
\* batch and streaming requests, supplied or generated; the batch response
\* carries it too.
C9_OneSessionId ==
    \A r \in Reqs :
        Resolved(r) =>
            /\ req[r].initial_state.session_id = req[r].config.configurable.thread_id
            /\ req[r].initial_state.session_id = req[r].session_id
            /\ (req[r].http.has_body =>
                  req[r].http.body.session_id = req[r].config.configurable.thread_id)

C9_Witness ==
    /\ \E r \in Chats : /\ req[r].supplied = None
                        /\ req[r].http.has_body
                        /\ req[r].config.configurable.thread_id = uuid4(r)
    /\ \E r \in Streams : /\ req[r].supplied = "s1"
                          /\ req[r].pc = "streaming"
                          /\ req[r].config.configurable.thread_id = "s1"

\* C10: get_checkpointer is called, and the agent graph constructed by
\* create_agent_graph, at most once per process, whatever the number of
\* requests.
C10_InitialisedOnce ==
    /\ get_checkpointer_calls <= 1
    /\ Len(create_agent_graph_args) <= 1

====
